---- MODULE Spec2Model ----
(***************************************************************************)
(* A model of the whisperX-r2 orchestration scripts:                       *)
(*   mp3_file_monitor.py     the MP3 watcher and transcription pipeline    *)
(*   reorganize_input_dir.py the transcript/organization directory matcher *)
(*   clean_empty_dirs.py     the empty-directory cleanup                   *)
(*   whisperx/vads/pyannote.py  the binarization of voice-activity scores  *)
(* File and directory names are sequences of one-character strings, so     *)
(* that lower(), split(), suffix and substring tests are computed the way  *)
(* the Python code computes them.                                          *)
(***************************************************************************)
EXTENDS Integers, Sequences, FiniteSets, TLC

VARIABLES
    \* ---- pure string functions applied to one drawn input
    callFn,        \* which function is applied: "detect" or "extract"
    callArg,       \* the name it is applied to
    callPc,        \* "call" before the application, "done" after
    language_code, \* result of detect_language_from_filename
    identifier,    \* result of extract_identifier
    \* ---- reorganize_input_dir.py
    tree,            \* ./input: top-level name -> what is there
    reorgPc,         \* position in plan_moves
    is_org,          \* is_organization_directory's answer per top-level directory
    org_dirs,        \* dict: identifier -> organization directory
    transcript_dirs, \* list of (directory, identifier)
    moves,           \* list of (source, target)
    input_kind,      \* what ./input itself is: "absent", "file" or "dir"
    response,        \* main: what input() returned last, before lower().strip()
    move_index,      \* execute_moves: entries of moves handled
    \* ---- clean_empty_dirs.py
    clean_kind,      \* what ./input itself is: "absent", "file" or "dir"
    clean_fs,        \* what is beneath ./input: (path, is_dir) per file and directory
    empty_dirs,      \* main: what find_empty_directories returned
    listed,          \* the directories ask_user_confirmation has printed
    clean_response,  \* ask_user_confirmation: what input() returned last
    delete_index,    \* delete_directories: entries of empty_dirs handled
    cleanPc,         \* position in main
    \* ---- whisperx/vads/pyannote.py, Binarize
    k_scores,        \* the scores of one class, one per frame
    frame_step,      \* time from one frame's middle to the next
    onset,           \* self.onset
    offset,          \* self.offset
    max_duration,    \* self.max_duration
    min_duration_on, \* self.min_duration_on
    frame,           \* frames handled so far
    start,           \* start of the current region
    is_active,       \* inside an active region
    curr_scores,     \* scores kept for the next division
    curr_timestamps, \* their timestamps
    active,          \* the Annotation: the regions stored so far
    binPc,           \* position in __call__
    \* ---- mp3_file_monitor.py
    fs_files,         \* regular files under ./input, as paths relative to it
    dirs,             \* directories directly under ./input
    created,          \* names the user has dropped into ./input since startup
    watched,          \* names whose creation the observer was running to see
    queue,            \* the observer's event queue
    lock,             \* processing_lock: "free" or the thread holding it
    current_language, \* self.current_language
    listing,          \* what ./input held when process_existing_files read it
    mp3_files,        \* process_existing_files: the list the glob returned
    scan_index,       \* process_existing_files: entries of mp3_files handled
    pc,               \* per thread: position in the code
    file_path,        \* per thread: argument of process_mp3_file
    steps_done,       \* per thread: steps of this call that finished
    raised,           \* per thread: this call entered its except block
    existed,          \* per thread: file_path.exists() was true in this call
    wrote             \* per thread: output files this call wrote

monVars == <<fs_files, dirs, created, watched, queue, lock, current_language,
             listing, mp3_files, scan_index, pc, file_path, steps_done, raised, existed, wrote>>

strVars == <<callFn, callArg, callPc, language_code, identifier>>

reorgVars == <<tree, reorgPc, is_org, org_dirs, transcript_dirs, moves,
               input_kind, response, move_index>>

cleanVars == <<clean_kind, clean_fs, empty_dirs, listed, clean_response,
               delete_index, cleanPc>>

binVars == <<k_scores, frame_step, onset, offset, max_duration, min_duration_on,
             frame, start, is_active, curr_scores, curr_timestamps, active, binPc>>

vars == <<strVars, reorgVars, cleanVars, binVars, monVars>>

(***************************************************************************)
(* Strings                                                                 *)
(***************************************************************************)

\* str.lower() on one character of the alphabet used here (ASCII).
LowerChar(c) ==
    CASE c = "A" -> "a"
      [] c = "E" -> "e"
      [] c = "N" -> "n"
      [] c = "M" -> "m"
      [] c = "P" -> "p"
      [] c = "K" -> "k"
      [] c = "Y" -> "y"
      [] c = "O" -> "o"
      [] c = "S" -> "s"
      [] OTHER -> c

\* str.lower()
Lower(s) == [i \in 1..Len(s) |-> LowerChar(s[i])]

\* Python's `sub in s`
Contains(sub, s) ==
    \E i \in 0..(Len(s) - Len(sub)) : SubSeq(s, i + 1, i + Len(sub)) = sub

\* Python's `s.endswith(sub)`
EndsWith(s, sub) ==
    /\ Len(sub) <= Len(s)
    /\ SubSeq(s, Len(s) - Len(sub) + 1, Len(s)) = sub

\* Index of the first occurrence of character c in s, 0 when there is none.
FirstIndex(c, s) ==
    IF \E i \in 1..Len(s) : s[i] = c
    THEN CHOOSE i \in 1..Len(s) : s[i] = c /\ \A j \in 1..(i - 1) : s[j] # c
    ELSE 0

\* Index of the last occurrence of character c in s, 0 when there is none.
LastIndex(c, s) ==
    IF \E i \in 1..Len(s) : s[i] = c
    THEN CHOOSE i \in 1..Len(s) : s[i] = c /\ \A j \in (i + 1)..Len(s) : s[j] # c
    ELSE 0

\* str.split(sep) for a one-character separator: the list of parts.
RECURSIVE Split(_, _)
Split(s, sep) ==
    LET i == FirstIndex(sep, s)
    IN  IF i = 0 THEN <<s>>
        ELSE <<SubSeq(s, 1, i - 1)>> \o Split(SubSeq(s, i + 1, Len(s)), sep)

\* str.strip(): leading and trailing white space removed.
RECURSIVE Strip(_)
Strip(s) ==
    IF s = <<>> THEN s
    ELSE IF s[1] \in {" ", "\t"} THEN Strip(Tail(s))
    ELSE IF s[Len(s)] \in {" ", "\t"} THEN Strip(SubSeq(s, 1, Len(s) - 1))
    ELSE s

DotMp3 == <<".", "m", "p", "3">>
DashEnMp3 == <<"-", "e", "n", ".", "m", "p", "3">>
DashEnDash == <<"-", "e", "n", "-">>

(***************************************************************************)
(* mp3_file_monitor.py: language detection                                 *)
(***************************************************************************)

\* The detection without the lower(): a case-sensitive test.
detect_language_case_sensitive(filename) ==
    IF Contains(DashEnMp3, filename) \/ Contains(DashEnDash, filename)
    THEN "en" ELSE "fi"

detect_language_from_filename(filename) ==
    LET filename_lower == Lower(filename)
    IN  IF Contains(DashEnMp3, filename_lower) \/ Contains(DashEnDash, filename_lower)
        THEN "en"
        ELSE "fi"

(***************************************************************************)
(* reorganize_input_dir.py: identifier extraction                          *)
(***************************************************************************)

\* The extraction without the cut at '.'.
extract_identifier_keep_dot(directory_name) ==
    IF ~Contains(<<"-">>, directory_name) THEN <<>>
    ELSE Split(directory_name, "-")[2]

extract_identifier(directory_name) ==
    IF ~Contains(<<"-">>, directory_name) THEN <<>>
    ELSE LET parts == Split(directory_name, "-")
         IN  IF Len(parts) < 2 THEN <<>>
             ELSE LET ident == parts[2]
                  IN  IF Contains(<<".">>, ident)
                      THEN Split(ident, ".")[1]
                      ELSE ident

(***************************************************************************)
(* reorganize_input_dir.py: the directory tree and its classification      *)
(***************************************************************************)

\* Most entries a directory under ./input holds.
MaxEntries == 1

\* Names that may stand directly under ./input.
TopNames ==
    { <<"x", "-", "a">>, <<"a">>, <<"b">>, <<"c", "-", "a", ".", "d">> }

\* What a directory under ./input may hold: files and subdirectories.
EntryChoices ==
    { [name |-> <<"t", ".", "M", "P", "3">>, is_dir |-> FALSE],
      [name |-> <<"n", ".", "t", "x", "t">>, is_dir |-> FALSE],
      [name |-> <<"a">>, is_dir |-> TRUE],
      [name |-> <<"q", "-", "a", ".", "m", "p", "3">>, is_dir |-> TRUE] }

Contents ==
    { [kind |-> "absent", entries |-> {}], [kind |-> "file", entries |-> {}] }
    \cup { [kind |-> "dir", entries |-> es] :
             es \in { e \in SUBSET EntryChoices : Cardinality(e) <= MaxEntries } }

Trees == [TopNames -> Contents]

\* pathlib's PurePath.suffix: from the last '.', unless the name starts with
\* that '.' or ends with it.
Suffix(name) ==
    LET i == LastIndex(".", name)
    IN  IF 1 < i /\ i < Len(name) THEN SubSeq(name, i, Len(name)) ELSE <<>>

\* input_path.iterdir(): the names present, in no particular order.
IterDir(t) == { n \in TopNames : t[n].kind # "absent" }

\* Every order in which iterdir() may yield the set S.
Orders(S) ==
    { o \in [1..Cardinality(S) -> S] : \A i, j \in DOMAIN o : i # j => o[i] # o[j] }

is_transcript_directory(t, path) ==
    /\ t[path].kind = "dir"
    /\ \E file \in t[path].entries : Lower(Suffix(file.name)) = DotMp3

is_organization_directory(t, path) ==
    /\ t[path].kind = "dir"
    /\ ~ \E item \in t[path].entries :
            ~item.is_dir /\ Lower(Suffix(item.name)) = DotMp3

\* dict: d[k] = v for every k of keys, later writes replacing earlier ones.
PutAll(d, keys, v) ==
    [k \in DOMAIN d \cup keys |-> IF k \in keys THEN v ELSE d[k]]

\* The keys find_organization_directories files the directory item under.
OrgKeys(t, item) ==
    LET subdirs == { e.name : e \in { x \in t[item].entries : x.is_dir } }
    IN  {item}
        \cup { extract_identifier(n) : n \in { m \in {item} : extract_identifier(m) # <<>> } }
        \cup subdirs
        \cup { extract_identifier(n) : n \in { m \in subdirs : extract_identifier(m) # <<>> } }

\* find_organization_directories over the items in the order iterdir() gave.
RECURSIVE find_organization_directories(_, _)
find_organization_directories(t, order) ==
    IF order = <<>> THEN <<>>
    ELSE LET n == Len(order)
             item == order[n]
             before == find_organization_directories(t, SubSeq(order, 1, n - 1))
         IN  IF t[item].kind = "dir" /\ is_organization_directory(t, item)
             THEN PutAll(before, OrgKeys(t, item), item)
             ELSE before

\* find_transcript_directories over the items in the order iterdir() gave.
RECURSIVE find_transcript_directories(_, _)
find_transcript_directories(t, order) ==
    IF order = <<>> THEN <<>>
    ELSE LET n == Len(order)
             item == order[n]
             before == find_transcript_directories(t, SubSeq(order, 1, n - 1))
         IN  IF /\ t[item].kind = "dir"
                /\ is_transcript_directory(t, item)
                /\ extract_identifier(item) # <<>>
             THEN Append(before, [path |-> item, identifier |-> extract_identifier(item)])
             ELSE before

\* The loop of plan_moves without the `identifier in org_dirs` test: a
\* transcript directory with no match is sent under ./input itself.
RECURSIVE plan_moves_unmatched_too(_, _)
plan_moves_unmatched_too(orgs, transcripts) ==
    IF transcripts = <<>> THEN <<>>
    ELSE LET n == Len(transcripts)
             tr == transcripts[n]
             before == plan_moves_unmatched_too(orgs, SubSeq(transcripts, 1, n - 1))
         IN  Append(before,
                    [source |-> <<tr.path>>,
                     target |-> IF tr.identifier \in DOMAIN orgs
                                THEN <<orgs[tr.identifier], tr.path>>
                                ELSE <<tr.path>>])

\* The loop of plan_moves: source ./input/T, target ./input/O/T.
RECURSIVE plan_moves(_, _)
plan_moves(orgs, transcripts) ==
    IF transcripts = <<>> THEN <<>>
    ELSE LET n == Len(transcripts)
             tr == transcripts[n]
             before == plan_moves(orgs, SubSeq(transcripts, 1, n - 1))
         IN  IF tr.identifier \in DOMAIN orgs
             THEN Append(before,
                         [source |-> <<tr.path>>,
                          target |-> <<orgs[tr.identifier], tr.path>>])
             ELSE before

\* ./input with nothing in it, or not there at all.
NoEntries == [n \in TopNames |-> [kind |-> "absent", entries |-> {}]]

\* No answer read yet.
NoResponse == <<"<", ">">>

\* plan_moves called on any ./input directory.
ReorgInit ==
    /\ input_kind = "dir"
    /\ tree \in Trees
    /\ reorgPc = "start"
    /\ is_org = <<>>
    /\ org_dirs = <<>>
    /\ transcript_dirs = <<>>
    /\ moves = <<>>
    /\ response = NoResponse
    /\ move_index = 0

\* The ./input directories main is run on: those without the name b.
MainTrees == { t \in Trees : t[<<"b">>].kind = "absent" }

\* main started: ./input is missing, a regular file, or a directory.
ReorgMainInit ==
    /\ input_kind \in {"absent", "file", "dir"}
    /\ tree \in IF input_kind = "dir" THEN MainTrees ELSE {NoEntries}
    /\ reorgPc = "start"
    /\ is_org = <<>>
    /\ org_dirs = <<>>
    /\ transcript_dirs = <<>>
    /\ moves = <<>>
    /\ response = NoResponse
    /\ move_index = 0

promptVars == <<input_kind, response, move_index>>

\* main: `if not input_path.exists(): return`
InputMissing ==
    /\ reorgPc = "start"
    /\ input_kind = "absent"
    /\ reorgPc' = "returned"
    /\ UNCHANGED <<tree, is_org, org_dirs, transcript_dirs, moves, promptVars>>

\* main: ./input exists but is a regular file, and iterdir() raises.
IterdirRaises ==
    /\ reorgPc = "start"
    /\ input_kind = "file"
    /\ reorgPc' = "crashed"
    /\ UNCHANGED <<tree, is_org, org_dirs, transcript_dirs, moves, promptVars>>

\* plan_moves, first half: org_dirs = find_organization_directories(input_path)
FindOrganizationDirectories ==
    /\ reorgPc = "start"
    /\ input_kind = "dir"
    /\ \E order \in Orders(IterDir(tree)) :
          org_dirs' = find_organization_directories(tree, order)
    /\ is_org' = [n \in { m \in IterDir(tree) : tree[m].kind = "dir" } |->
                    is_organization_directory(tree, n)]
    /\ reorgPc' = "orgs"
    /\ UNCHANGED <<tree, transcript_dirs, moves, promptVars>>

\* plan_moves, second half: find_transcript_directories and the matching loop
PlanMoves ==
    /\ reorgPc = "orgs"
    /\ \E order \in Orders(IterDir(tree)) :
          /\ transcript_dirs' = find_transcript_directories(tree, order)
          /\ moves' = plan_moves(org_dirs, transcript_dirs')
    /\ reorgPc' = "planned"
    /\ UNCHANGED <<tree, is_org, org_dirs, promptVars>>

(***************************************************************************)
(* reorganize_input_dir.py: the confirmation and the moves.                *)
(* A directory moved under an organization directory becomes one of its    *)
(* entries; what the moved directory holds is not followed further.        *)
(***************************************************************************)

\* What the user may type at the prompt.
Responses ==
    { <<"k">>, <<"k", "y", "l", "l", "ä">>, <<"y">>, <<" ", "Y", "e", "s", " ">>,
      <<"e">>, <<"e", "i">>, <<"n">>, <<"N", "O">>,
      <<>>, <<"x">>, <<"k", "y">> }

\* The answers taken for a yes, with the empty answer among them.
YesResponsesOrEmpty ==
    { <<"k">>, <<"k", "y", "l", "l", "ä">>, <<"y">>, <<"y", "e", "s">>, <<>> }

\* ['k', 'kyllä', 'y', 'yes']
YesResponses ==
    { <<"k">>, <<"k", "y", "l", "l", "ä">>, <<"y">>, <<"y", "e", "s">> }

\* ['e', 'ei', 'n', 'no']
NoResponses ==
    { <<"e">>, <<"e", "i">>, <<"n">>, <<"n", "o">> }

\* main: display_move_plan(moves); `if not moves: return`
DisplayMovePlan ==
    /\ reorgPc = "planned"
    /\ reorgPc' = IF moves = <<>> THEN "returned" ELSE "prompt"
    /\ UNCHANGED <<tree, is_org, org_dirs, transcript_dirs, moves, promptVars>>

\* main: one turn of the `while True` loop around input()
Prompt ==
    /\ reorgPc = "prompt"
    /\ \E typed \in Responses :
          /\ response' = typed
          /\ LET answer == Strip(Lower(typed))
             IN  reorgPc' = IF answer \in YesResponses THEN "execute"
                            ELSE IF answer \in NoResponses THEN "returned"
                            ELSE "prompt"
    /\ UNCHANGED <<tree, is_org, org_dirs, transcript_dirs, moves,
                   input_kind, move_index>>

\* main: input() raises EOFError when standard input is closed.
PromptRaises ==
    /\ reorgPc = "prompt"
    /\ reorgPc' = "crashed"
    /\ UNCHANGED <<tree, is_org, org_dirs, transcript_dirs, moves, promptVars>>

\* target.parent.mkdir(parents=True, exist_ok=True)
MkdirParent(t, parent) ==
    IF t[parent].kind = "absent"
    THEN [t EXCEPT ![parent] = [kind |-> "dir", entries |-> {}]]
    ELSE t

\* shutil.move(source, target) can succeed: the source is there, the target's
\* parent is a directory other than the source, and holds nothing of that name.
CanMove(t, source, parent) ==
    /\ t[source].kind # "absent"
    /\ t[parent].kind = "dir"
    /\ source # parent
    /\ ~ \E e \in t[parent].entries : e.name = source

\* The tree after shutil.move(./input/source, ./input/parent/source).
AfterMove(t, source, parent) ==
    [t EXCEPT ![source] = [kind |-> "absent", entries |-> {}],
              ![parent] = [kind |-> "dir",
                           entries |-> t[parent].entries
                               \cup { [name |-> source,
                                       is_dir |-> t[source].kind = "dir"] }]]

\* execute_moves: one turn of the loop; mkdir or the move may raise, and the
\* except clause then goes on with the next move.
ExecuteMove ==
    /\ reorgPc = "execute"
    /\ move_index < Len(moves)
    /\ LET source == moves[move_index + 1].source[1]
           parent == moves[move_index + 1].target[1]
           made == MkdirParent(tree, parent)
       IN  \/ tree' = tree
           \/ tree' = made
           \/ CanMove(made, source, parent) /\ tree' = AfterMove(made, source, parent)
    /\ move_index' = move_index + 1
    /\ UNCHANGED <<reorgPc, is_org, org_dirs, transcript_dirs, moves,
                   input_kind, response>>

\* execute_moves returns, and main after it.
MovesExecuted ==
    /\ reorgPc = "execute"
    /\ move_index = Len(moves)
    /\ reorgPc' = "returned"
    /\ UNCHANGED <<tree, is_org, org_dirs, transcript_dirs, moves, promptVars>>

\* plan_moves alone.
ReorgNext ==
    \/ FindOrganizationDirectories /\ UNCHANGED <<strVars, cleanVars, binVars, monVars>>
    \/ PlanMoves /\ UNCHANGED <<strVars, cleanVars, binVars, monVars>>

\* main, from its first line to its return.
ReorgMainNext ==
    \/ InputMissing /\ UNCHANGED <<strVars, cleanVars, binVars, monVars>>
    \/ IterdirRaises /\ UNCHANGED <<strVars, cleanVars, binVars, monVars>>
    \/ FindOrganizationDirectories /\ UNCHANGED <<strVars, cleanVars, binVars, monVars>>
    \/ PlanMoves /\ UNCHANGED <<strVars, cleanVars, binVars, monVars>>
    \/ DisplayMovePlan /\ UNCHANGED <<strVars, cleanVars, binVars, monVars>>
    \/ Prompt /\ UNCHANGED <<strVars, cleanVars, binVars, monVars>>
    \/ PromptRaises /\ UNCHANGED <<strVars, cleanVars, binVars, monVars>>
    \/ ExecuteMove /\ UNCHANGED <<strVars, cleanVars, binVars, monVars>>
    \/ MovesExecuted /\ UNCHANGED <<strVars, cleanVars, binVars, monVars>>

(***************************************************************************)
(* clean_empty_dirs.py.                                                    *)
(* What is beneath ./input is a set of nodes (path, is_dir), a path being  *)
(* the sequence of names from ./input down, so <<>> is ./input itself.     *)
(* Directories stand at most two levels below ./input.  Nothing but the    *)
(* program changes the tree while it runs.                                 *)
(***************************************************************************)

\* Most entries a directory beneath ./input holds.
MaxWidth == 2

DsStore == <<".", "D", "S", "_", "S", "t", "o", "r", "e">>

CleanFileNames == { DsStore, <<"f">> }

CleanDirNames == { <<"a">>, <<"B">> }

\* The nodes of contents, put beneath the directory at path.
Beneath(path, contents) ==
    { [path |-> path \o n.path, is_dir |-> n.is_dir] : n \in contents }

\* What a directory may hold when its subdirectories hold one of lower.
Grow(lower) ==
    LET Holding(F, D) ==
            { { [path |-> <<f>>, is_dir |-> FALSE] : f \in F }
              \cup { [path |-> <<d>>, is_dir |-> TRUE] : d \in D }
              \cup UNION { Beneath(<<d>>, sub[d]) : d \in D } :
                sub \in [D -> lower] }
    IN  UNION { Holding(c[1], c[2]) :
                  c \in { e \in (SUBSET CleanFileNames) \X (SUBSET CleanDirNames) :
                            Cardinality(e[1]) + Cardinality(e[2]) <= MaxWidth } }

\* Everything ./input may hold: files, directories, and directories in these
\* that hold files only.
CleanTrees == Grow(Grow(Grow({})))

\* ord() of the characters of the directory names.
CharCode(c) ==
    CASE c = "." -> 46
      [] c = "B" -> 66
      [] c = "a" -> 97
      [] c = "f" -> 102
      [] OTHER -> 0

\* str.__lt__: the first character that differs decides, by code point; a
\* proper prefix is the smaller.
StrLess(a, b) ==
    \E i \in 1..(Len(a) + 1) :
        /\ i <= Len(b) + 1
        /\ \A j \in 1..(i - 1) : a[j] = b[j]
        /\ \/ i = Len(a) + 1 /\ i <= Len(b)
           \/ i <= Len(a) /\ i <= Len(b) /\ CharCode(a[i]) < CharCode(b[i])

\* PurePath.__lt__: the parts compared as a list of strings.
PathLess(p, q) ==
    \E i \in 1..(Len(p) + 1) :
        /\ i <= Len(q) + 1
        /\ \A j \in 1..(i - 1) : p[j] = q[j]
        /\ \/ i = Len(p) + 1 /\ i <= Len(q)
           \/ i <= Len(p) /\ i <= Len(q) /\ StrLess(p[i], q[i])

\* sorted() of a set of paths.
RECURSIVE sorted(_)
sorted(S) ==
    IF S = {} THEN <<>>
    ELSE LET least == CHOOSE x \in S : \A y \in S \ {x} : PathLess(x, y)
         IN  <<least>> \o sorted(S \ {least})

\* The entries of the directory at path.
Children(fs, path) ==
    { n \in fs : /\ Len(n.path) = Len(path) + 1
                 /\ SubSeq(n.path, 1, Len(path)) = path }

\* os.walk(root_path): one (dirpath, dirnames, filenames) per directory.
os_walk(fs) ==
    { [dirpath |-> d,
       dirnames |-> { n.path[Len(n.path)] : n \in { c \in Children(fs, d) : c.is_dir } },
       filenames |-> { n.path[Len(n.path)] : n \in { c \in Children(fs, d) : ~c.is_dir } }] :
        d \in {<<>>} \cup { n.path : n \in { m \in fs : m.is_dir } } }

find_empty_directories(kind, fs) ==
    IF kind # "dir" THEN <<>>
    ELSE sorted({ w.dirpath : w \in
                    { v \in os_walk(fs) :
                        \/ v.dirnames = {} /\ v.filenames = {}
                        \/ v.filenames = {DsStore} /\ v.dirnames = {} } })

\* path is dir_path or lies beneath it.
IsWithin(path, dir_path) ==
    /\ Len(dir_path) <= Len(path)
    /\ SubSeq(path, 1, Len(dir_path)) = dir_path

\* shutil.rmtree taking the directory that holds dir_path as well.
rmtree_parent_too(fs, dir_path) ==
    { n \in fs : ~IsWithin(n.path, SubSeq(dir_path, 1, Len(dir_path) - 1)) }

\* shutil.rmtree(dir_path): the directory and everything in it.
rmtree(fs, dir_path) ==
    { n \in fs : ~IsWithin(n.path, dir_path) }

\* ['k', 'kyllä', 'y', 'yes']
CleanYesResponses ==
    { <<"k">>, <<"k", "y", "l", "l", "ä">>, <<"y">>, <<"y", "e", "s">> }

\* ['e', 'ei', 'n', 'no']
CleanNoResponses ==
    { <<"e">>, <<"e", "i">>, <<"n">>, <<"n", "o">> }

\* dir_path.exists()
Exists(kind, fs, path) ==
    IF path = <<>> THEN kind # "absent" ELSE \E n \in fs : n.path = path

CleanInit ==
    /\ clean_kind \in {"absent", "file", "dir"}
    /\ clean_fs \in IF clean_kind = "dir" THEN CleanTrees ELSE {{}}
    /\ empty_dirs = <<>>
    /\ listed = {}
    /\ clean_response = NoResponse
    /\ delete_index = 0
    /\ cleanPc = "start"

\* The cleanup, not started, on an empty ./input.
CleanIdle ==
    /\ clean_kind = "dir"
    /\ clean_fs = {}
    /\ empty_dirs = <<>>
    /\ listed = {}
    /\ clean_response = NoResponse
    /\ delete_index = 0
    /\ cleanPc = "start"

\* main: empty_dirs = find_empty_directories(input_dir)
FindEmptyDirectories ==
    /\ cleanPc = "start"
    /\ empty_dirs' = find_empty_directories(clean_kind, clean_fs)
    /\ cleanPc' = "found"
    /\ UNCHANGED <<clean_kind, clean_fs, listed, clean_response, delete_index>>

\* ask_user_confirmation up to its loop: return False on an empty list, print
\* the list otherwise.
ListEmptyDirectories ==
    /\ cleanPc = "found"
    /\ IF empty_dirs = <<>>
       THEN /\ cleanPc' = "returned"
            /\ listed' = listed
       ELSE /\ cleanPc' = "prompt"
            /\ listed' = { empty_dirs[i] : i \in DOMAIN empty_dirs }
    /\ UNCHANGED <<clean_kind, clean_fs, empty_dirs, clean_response, delete_index>>

\* ask_user_confirmation: one turn of the `while True` loop around input()
AskUserConfirmation ==
    /\ cleanPc = "prompt"
    /\ \E typed \in Responses :
          /\ clean_response' = typed
          /\ LET answer == Lower(Strip(typed))
             IN  cleanPc' = IF answer \in CleanYesResponses THEN "delete"
                            ELSE IF answer \in CleanNoResponses THEN "returned"
                            ELSE "prompt"
    /\ UNCHANGED <<clean_kind, clean_fs, empty_dirs, listed, delete_index>>

\* ask_user_confirmation: input() raises EOFError when standard input is closed.
AskUserRaises ==
    /\ cleanPc = "prompt"
    /\ cleanPc' = "crashed"
    /\ UNCHANGED <<clean_kind, clean_fs, empty_dirs, listed, clean_response,
                   delete_index>>

\* delete_directories: one turn of the loop; rmtree may raise, and the except
\* clause then goes on with the next directory.
DeleteDirectory ==
    /\ cleanPc = "delete"
    /\ delete_index < Len(empty_dirs)
    /\ LET dir_path == empty_dirs[delete_index + 1]
       IN  \/ UNCHANGED <<clean_kind, clean_fs>>
           \/ /\ Exists(clean_kind, clean_fs, dir_path)
              /\ clean_fs' = rmtree(clean_fs, dir_path)
              /\ clean_kind' = IF dir_path = <<>> THEN "absent" ELSE clean_kind
    /\ delete_index' = delete_index + 1
    /\ UNCHANGED <<empty_dirs, listed, clean_response, cleanPc>>

\* delete_directories returns, and main after it.
DirectoriesDeleted ==
    /\ cleanPc = "delete"
    /\ delete_index = Len(empty_dirs)
    /\ cleanPc' = "returned"
    /\ UNCHANGED <<clean_kind, clean_fs, empty_dirs, listed, clean_response,
                   delete_index>>

CleanNext ==
    \/ FindEmptyDirectories /\ UNCHANGED <<strVars, reorgVars, binVars, monVars>>
    \/ ListEmptyDirectories /\ UNCHANGED <<strVars, reorgVars, binVars, monVars>>
    \/ AskUserConfirmation /\ UNCHANGED <<strVars, reorgVars, binVars, monVars>>
    \/ AskUserRaises /\ UNCHANGED <<strVars, reorgVars, binVars, monVars>>
    \/ DeleteDirectory /\ UNCHANGED <<strVars, reorgVars, binVars, monVars>>
    \/ DirectoriesDeleted /\ UNCHANGED <<strVars, reorgVars, binVars, monVars>>

(***************************************************************************)
(* whisperx/vads/pyannote.py: Binarize.__call__ for one class of scores.   *)
(* Times and scores are integers: frame i (from 0) has its middle at       *)
(* i * frame_step.  Padding and min_duration_off are zero, as merge_chunks *)
(* constructs Binarize.                                                    *)
(***************************************************************************)

\* Most frames in a score sequence.
MaxFrames == 6
\* Largest max_duration.
MaxDuration == 2

\* The values a score takes.
ScoreValues == 0..2

\* The spacings of the frames.
FrameSteps == {1, 2}

\* timestamps[i] = frames[i].middle, i counted from 0
timestamps(i) == i * frame_step

\* np.argmin: the first position (from 1) of the smallest item.
argmin(seq) ==
    CHOOSE i \in 1..Len(seq) :
        /\ \A j \in 1..Len(seq) : seq[i] <= seq[j]
        /\ \A j \in 1..(i - 1) : seq[j] > seq[i]

\* search_after + np.argmin(curr_scores[search_after:]), as a position from 1.
min_score_div_idx(scores) ==
    LET search_after == Len(scores) \div 2
    IN  search_after + argmin(SubSeq(scores, search_after + 1, Len(scores)))

\* The duration test comparing with twice max_duration.
exceeds_twice_max(curr_duration) == curr_duration > 2 * max_duration

\* curr_duration > self.max_duration
exceeds_max(curr_duration) == curr_duration > max_duration

\* active[region, k] = label: an empty segment is not stored.
Store(annotation, region) ==
    IF region.end > region.start THEN annotation \cup {region} ELSE annotation

\* self.offset = offset or onset; 0 stands for both None and 0.0.
OffsetOr(given, onset_given) ==
    IF given = 0 THEN onset_given ELSE given

BinInit ==
    /\ k_scores \in UNION { [1..n -> ScoreValues] : n \in 1..MaxFrames }
    /\ frame_step \in FrameSteps
    /\ onset \in {0, 1}
    /\ offset \in { OffsetOr(given, onset) : given \in {0, 1} }
    /\ max_duration \in 1..MaxDuration
    /\ min_duration_on \in {0, 2}
    /\ frame = 0
    /\ start = 0
    /\ is_active = FALSE
    /\ curr_scores = <<>>
    /\ curr_timestamps = <<>>
    /\ active = {}
    /\ binPc = "initial"

\* No binarization under way.
BinIdle ==
    /\ k_scores = <<>>
    /\ frame_step = 1
    /\ onset = 0
    /\ offset = 0
    /\ max_duration = 1
    /\ min_duration_on = 0
    /\ frame = 0
    /\ start = 0
    /\ is_active = FALSE
    /\ curr_scores = <<>>
    /\ curr_timestamps = <<>>
    /\ active = {}
    /\ binPc = "done"

binParams == <<k_scores, frame_step, onset, offset, max_duration, min_duration_on>>

\* __call__: the initial state, from frame 0
InitialState ==
    /\ binPc = "initial"
    /\ start' = timestamps(0)
    /\ is_active' = (k_scores[1] > onset)
    /\ curr_scores' = <<k_scores[1]>>
    /\ curr_timestamps' = <<timestamps(0)>>
    /\ frame' = 1
    /\ binPc' = "loop"
    /\ UNCHANGED <<binParams, active>>

\* __call__: one turn of `for t, y in zip(timestamps[1:], k_scores[1:])`
NextFrame ==
    /\ binPc = "loop"
    /\ frame < Len(k_scores)
    /\ LET t == timestamps(frame)
           y == k_scores[frame + 1]
       IN  IF is_active
           THEN IF exceeds_max(t - start)
                THEN LET idx == min_score_div_idx(curr_scores)
                         min_score_t == curr_timestamps[idx]
                     IN  /\ active' = Store(active, [start |-> start, end |-> min_score_t])
                         /\ start' = curr_timestamps[idx]
                         /\ curr_scores' =
                               Append(SubSeq(curr_scores, idx + 1, Len(curr_scores)), y)
                         /\ curr_timestamps' =
                               Append(SubSeq(curr_timestamps, idx + 1, Len(curr_timestamps)), t)
                         /\ UNCHANGED is_active
                ELSE IF y < offset
                THEN /\ active' = Store(active, [start |-> start, end |-> t])
                     /\ start' = t
                     /\ is_active' = FALSE
                     /\ curr_scores' = <<y>>
                     /\ curr_timestamps' = <<t>>
                ELSE /\ curr_scores' = Append(curr_scores, y)
                     /\ curr_timestamps' = Append(curr_timestamps, t)
                     /\ UNCHANGED <<active, start, is_active>>
           ELSE IF y > onset
                THEN /\ start' = t
                     /\ is_active' = TRUE
                     /\ UNCHANGED <<active, curr_scores, curr_timestamps>>
                ELSE UNCHANGED <<active, start, is_active, curr_scores, curr_timestamps>>
    /\ frame' = frame + 1
    /\ UNCHANGED <<binParams, binPc>>

\* __call__ after the loop: the final region, then the removal of the regions
\* shorter than min_duration_on.
FinalRegion ==
    /\ binPc = "loop"
    /\ frame = Len(k_scores)
    /\ LET t == timestamps(frame - 1)
           with_final == IF is_active
                         THEN Store(active, [start |-> start, end |-> t])
                         ELSE active
       IN  active' = IF min_duration_on > 0
                     THEN { r \in with_final : ~(r.end - r.start < min_duration_on) }
                     ELSE with_final
    /\ binPc' = "done"
    /\ UNCHANGED <<binParams, frame, start, is_active, curr_scores, curr_timestamps>>

BinNext ==
    \/ InitialState /\ UNCHANGED <<strVars, reorgVars, cleanVars, monVars>>
    \/ NextFrame /\ UNCHANGED <<strVars, reorgVars, cleanVars, monVars>>
    \/ FinalRegion /\ UNCHANGED <<strVars, reorgVars, cleanVars, monVars>>

(***************************************************************************)
(* mp3_file_monitor.py: the watcher and the pipeline.                      *)
(* Paths are relative to ./input: <<name>> is ./input/name and             *)
(* <<dir, name>> is ./input/dir/name.  pathlib is taken in its POSIX       *)
(* flavour.  mkdir of the target directory and the write of error.log are  *)
(* taken to succeed; every other call of the pipeline may raise.  The user *)
(* only adds files: nothing outside the monitor removes one.               *)
(***************************************************************************)

\* Files the user drops into ./input after startup, at most.
MaxCreates == 2

Threads == {"main", "observer"}

\* Names of the files that may stand in, or be dropped into, ./input.
InputNames ==
    { <<"a", ".", "m", "p", "3">>,
      <<"b", "-", "e", "n", ".", "M", "P", "3">>,
      <<"n", ".", "t", "x", "t">> }

DotTxt == <<".", "t", "x", "t">>
DotMd == <<".", "m", "d">>
DotJson == <<".", "j", "s", "o", "n">>
ErrorLog == <<"e", "r", "r", "o", "r", ".", "l", "o", "g">>

\* The stem taken to be the whole file name.
StemKeepsSuffix(name) == name

\* pathlib's PurePath.stem: the name without its suffix.
Stem(name) ==
    LET i == LastIndex(".", name)
    IN  IF 1 < i /\ i < Len(name) THEN SubSeq(name, 1, i - 1) ELSE name

\* input_path.glob("*.mp3") over a directory listing: a case-sensitive match.
Glob(names) == { n \in names : EndsWith(n, DotMp3) }

\* The test of on_created, without the lower().
AcceptsCaseSensitive(event) ==
    ~event.is_directory /\ EndsWith(event.src_path, DotMp3)

\* The test of on_created.
Accepts(event) ==
    ~event.is_directory /\ EndsWith(Lower(event.src_path), DotMp3)

\* The order of the steps with diarization put before alignment.
StepAfterDiarizeFirst(step) ==
    CASE step = "move" -> "load_align"
      [] step = "load_align" -> "load_audio"
      [] step = "load_audio" -> "transcribe"
      [] step = "transcribe" -> "diarize"
      [] step = "diarize" -> "align"
      [] step = "align" -> "assign"
      [] step = "assign" -> "save"
      [] step = "save" -> "release"

\* The steps of process_mp3_file and transcribe_file, each followed by the
\* step that runs when it returns without raising.
StepAfter(step) ==
    CASE step = "move" -> "load_align"
      [] step = "load_align" -> "load_audio"
      [] step = "load_audio" -> "transcribe"
      [] step = "transcribe" -> "align"
      [] step = "align" -> "diarize"
      [] step = "diarize" -> "assign"
      [] step = "assign" -> "save"
      [] step = "save" -> "release"

\* The steps that are calls into the library, between the move and the save.
LibrarySteps == {"load_audio", "transcribe", "align", "diarize", "assign"}

\* save_transcript writes .txt, then .md, then .json.
OutputSuffixes == <<DotTxt, DotMd, DotJson>>

\* The output files without the .json one.
OutputFilesNoJson(output_dir, base_filename, k) ==
    { <<output_dir, base_filename \o OutputSuffixes[i]>> : i \in 1..k }
    \ { <<output_dir, base_filename \o DotJson>> }

\* The first k output files of save_transcript(result, mp3_path, output_dir).
OutputFiles(output_dir, base_filename, k) ==
    { <<output_dir, base_filename \o OutputSuffixes[i]>> : i \in 1..k }

\* The handler's return point in the thread that called it.
ReturnPc(t) == IF t = "main" THEN "loop" ELSE "wait"

MonitorInit ==
    /\ fs_files \in { { <<n>> : n \in S } : S \in SUBSET InputNames }
    /\ dirs = {}
    /\ created = {}
    /\ watched = {}
    /\ queue = <<>>
    /\ lock = "free"
    /\ current_language = "None"
    /\ listing = {}
    /\ mp3_files = <<>>
    /\ scan_index = 0
    /\ pc = [t \in Threads |-> IF t = "main" THEN "start" ELSE "off"]
    /\ file_path = [t \in Threads |-> <<>>]
    /\ steps_done = [t \in Threads |-> <<>>]
    /\ raised = [t \in Threads |-> FALSE]
    /\ existed = [t \in Threads |-> FALSE]
    /\ wrote = [t \in Threads |-> {}]

\* The monitor, not started, on an empty ./input.
MonitorIdle ==
    /\ fs_files = {}
    /\ dirs = {}
    /\ created = {}
    /\ watched = {}
    /\ queue = <<>>
    /\ lock = "free"
    /\ current_language = "None"
    /\ listing = {}
    /\ mp3_files = <<>>
    /\ scan_index = 0
    /\ pc = [t \in Threads |-> IF t = "main" THEN "start" ELSE "off"]
    /\ file_path = [t \in Threads |-> <<>>]
    /\ steps_done = [t \in Threads |-> <<>>]
    /\ raised = [t \in Threads |-> FALSE]
    /\ existed = [t \in Threads |-> FALSE]
    /\ wrote = [t \in Threads |-> {}]

callVars == <<file_path, steps_done, raised, existed, wrote>>

\* The user drops a file into ./input; a running observer queues the event.
CreateFile(n) ==
    /\ n \in InputNames \ created
    /\ <<n>> \notin fs_files
    /\ \A d \in dirs : <<d, n>> \notin fs_files
    /\ Cardinality(created) < MaxCreates
    /\ fs_files' = fs_files \cup { <<n>> }
    /\ created' = created \cup {n}
    /\ IF pc["observer"] # "off"
       THEN /\ queue' = Append(queue, [src_path |-> n, is_directory |-> FALSE])
            /\ watched' = watched \cup {n}
       ELSE UNCHANGED <<queue, watched>>
    /\ UNCHANGED <<dirs, lock, current_language, listing, mp3_files, scan_index, pc, callVars>>

\* main: observer.start()
StartObserver ==
    /\ pc["main"] = "start"
    /\ pc' = [pc EXCEPT !["main"] = "scan", !["observer"] = "wait"]
    /\ UNCHANGED <<fs_files, dirs, created, watched, queue, lock,
                   current_language, listing, mp3_files, scan_index, callVars>>

\* process_existing_files: mp3_files = list(input_path.glob("*.mp3"))
ScanExisting ==
    /\ pc["main"] = "scan"
    /\ listing' = { p[1] : p \in { q \in fs_files : Len(q) = 1 } }
    /\ mp3_files' \in Orders(Glob(listing'))
    /\ pc' = [pc EXCEPT !["main"] = "loop"]
    /\ UNCHANGED <<fs_files, dirs, created, watched, queue, lock,
                   current_language, scan_index, callVars>>

\* process_existing_files: the for loop, then main's `while True: sleep`
LoopExisting ==
    /\ pc["main"] = "loop"
    /\ IF scan_index < Len(mp3_files)
       THEN /\ file_path' = [file_path EXCEPT !["main"] = mp3_files[scan_index + 1]]
            /\ scan_index' = scan_index + 1
            /\ pc' = [pc EXCEPT !["main"] = "acquire"]
       ELSE /\ pc' = [pc EXCEPT !["main"] = "idle"]
            /\ UNCHANGED <<file_path, scan_index>>
    /\ UNCHANGED <<fs_files, dirs, created, watched, queue, lock,
                   current_language, listing, mp3_files, steps_done, raised,
                   existed, wrote>>

\* observer thread: take the next event and call on_created (the test, then
\* the two-second sleep)
Dispatch ==
    /\ pc["observer"] = "wait"
    /\ queue # <<>>
    /\ queue' = Tail(queue)
    /\ IF Accepts(Head(queue))
       THEN /\ file_path' = [file_path EXCEPT !["observer"] = Head(queue).src_path]
            /\ pc' = [pc EXCEPT !["observer"] = "acquire"]
       ELSE UNCHANGED <<file_path, pc>>
    /\ UNCHANGED <<fs_files, dirs, created, watched, lock, current_language,
                   listing, mp3_files, scan_index, steps_done, raised, existed, wrote>>

\* process_mp3_file entered without waiting for processing_lock.
AcquireWithoutWaiting(t) ==
    /\ pc[t] = "acquire"
    /\ lock' = t
    /\ LET target_dir == Stem(file_path[t])
       IN  /\ dirs' = dirs \cup {target_dir}
           /\ IF target_dir \notin dirs /\ pc["observer"] # "off"
              THEN queue' = Append(queue, [src_path |-> target_dir, is_directory |-> TRUE])
              ELSE UNCHANGED queue
    /\ pc' = [pc EXCEPT ![t] = "move"]
    /\ UNCHANGED <<fs_files, created, watched, current_language, listing,
                   mp3_files, scan_index, callVars>>

\* process_mp3_file: take the lock, then target_dir.mkdir(); a new directory
\* under ./input is an event for the running observer.
Acquire(t) ==
    /\ pc[t] = "acquire"
    /\ lock = "free"
    /\ lock' = t
    /\ LET target_dir == Stem(file_path[t])
       IN  /\ dirs' = dirs \cup {target_dir}
           /\ IF target_dir \notin dirs /\ pc["observer"] # "off"
              THEN queue' = Append(queue, [src_path |-> target_dir, is_directory |-> TRUE])
              ELSE UNCHANGED queue
    /\ pc' = [pc EXCEPT ![t] = "move"]
    /\ UNCHANGED <<fs_files, created, watched, current_language, listing,
                   mp3_files, scan_index, callVars>>

\* process_mp3_file: if file_path.exists(): shutil.move(...) else: return
Move(t) ==
    /\ pc[t] = "move"
    /\ LET name == file_path[t]
           new_mp3_path == <<Stem(name), name>>
       IN  IF <<name>> \in fs_files
           THEN /\ existed' = [existed EXCEPT ![t] = TRUE]
                /\ \/ /\ fs_files' = (fs_files \ { <<name>> }) \cup {new_mp3_path}
                      /\ steps_done' = [steps_done EXCEPT ![t] = Append(@, "move")]
                      /\ pc' = [pc EXCEPT ![t] = StepAfter("move")]
                   \/ /\ pc' = [pc EXCEPT ![t] = "except"]
                      /\ UNCHANGED <<fs_files, steps_done>>
           ELSE /\ pc' = [pc EXCEPT ![t] = "release"]
                /\ UNCHANGED <<fs_files, steps_done, existed>>
    /\ UNCHANGED <<dirs, created, watched, queue, lock, current_language,
                   listing, mp3_files, scan_index, file_path, raised, wrote>>

\* process_mp3_file: detect the language, then load_alignment_model, which
\* loads only when the language changes
LoadAlign(t) ==
    /\ pc[t] = "load_align"
    /\ LET code == detect_language_from_filename(file_path[t])
       IN  \/ /\ current_language' = code
              /\ steps_done' = [steps_done EXCEPT ![t] = Append(@, "load_align")]
              /\ pc' = [pc EXCEPT ![t] = StepAfter("load_align")]
           \/ /\ current_language # code
              /\ pc' = [pc EXCEPT ![t] = "except"]
              /\ UNCHANGED <<current_language, steps_done>>
    /\ UNCHANGED <<fs_files, dirs, created, watched, queue, lock, listing,
                   mp3_files, scan_index, file_path, raised, existed, wrote>>

\* transcribe_file: load_audio, model.transcribe, align, the diarization
\* model, assign_word_speakers
Library(t) ==
    /\ pc[t] \in LibrarySteps
    /\ \/ /\ steps_done' = [steps_done EXCEPT ![t] = Append(@, pc[t])]
          /\ pc' = [pc EXCEPT ![t] = StepAfter(pc[t])]
       \/ /\ pc' = [pc EXCEPT ![t] = "except"]
          /\ UNCHANGED steps_done
    /\ UNCHANGED <<fs_files, dirs, created, watched, queue, lock,
                   current_language, listing, mp3_files, scan_index, file_path, raised,
                   existed, wrote>>

\* save_transcript: the three files in turn; a write may raise
Save(t) ==
    /\ pc[t] = "save"
    /\ \E k \in 0..Len(OutputSuffixes) :
          LET name == file_path[t]
              written == OutputFiles(Stem(name), Stem(name), k)
          IN  /\ fs_files' = fs_files \cup written
              /\ wrote' = [wrote EXCEPT ![t] = written]
              /\ IF k = Len(OutputSuffixes)
                 THEN /\ steps_done' = [steps_done EXCEPT ![t] = Append(@, "save")]
                      /\ pc' = [pc EXCEPT ![t] = StepAfter("save")]
                 ELSE /\ pc' = [pc EXCEPT ![t] = "except"]
                      /\ UNCHANGED steps_done
    /\ UNCHANGED <<dirs, created, watched, queue, lock, current_language,
                   listing, mp3_files, scan_index, file_path, raised, existed>>

\* process_mp3_file: except Exception: write target_dir / "error.log"
Except(t) ==
    /\ pc[t] = "except"
    /\ fs_files' = fs_files \cup { <<Stem(file_path[t]), ErrorLog>> }
    /\ raised' = [raised EXCEPT ![t] = TRUE]
    /\ pc' = [pc EXCEPT ![t] = "release"]
    /\ UNCHANGED <<dirs, created, watched, queue, lock, current_language,
                   listing, mp3_files, scan_index, file_path, steps_done, existed, wrote>>

\* process_mp3_file returns: the with block gives the lock back
Release(t) ==
    /\ pc[t] = "release"
    /\ lock' = "free"
    /\ pc' = [pc EXCEPT ![t] = ReturnPc(t)]
    /\ file_path' = [file_path EXCEPT ![t] = <<>>]
    /\ steps_done' = [steps_done EXCEPT ![t] = <<>>]
    /\ raised' = [raised EXCEPT ![t] = FALSE]
    /\ existed' = [existed EXCEPT ![t] = FALSE]
    /\ wrote' = [wrote EXCEPT ![t] = {}]
    /\ UNCHANGED <<fs_files, dirs, created, watched, queue, current_language,
                   listing, mp3_files, scan_index>>

\* One step of process_mp3_file in thread t.
Process(t) ==
    \/ Acquire(t)
    \/ Move(t)
    \/ LoadAlign(t)
    \/ Library(t)
    \/ Save(t)
    \/ Except(t)
    \/ Release(t)

otherVarsOfMonitor == <<strVars, reorgVars, cleanVars, binVars>>

\* The steps of the main thread.
MainStep ==
    /\ StartObserver \/ ScanExisting \/ LoopExisting \/ Process("main")
    /\ UNCHANGED otherVarsOfMonitor

\* The steps of the observer thread.
ObserverStep ==
    /\ Dispatch \/ Process("observer")
    /\ UNCHANGED otherVarsOfMonitor

MonitorNext ==
    \/ (\E n \in InputNames : CreateFile(n)) /\ UNCHANGED otherVarsOfMonitor
    \/ StartObserver /\ UNCHANGED otherVarsOfMonitor
    \/ ScanExisting /\ UNCHANGED otherVarsOfMonitor
    \/ LoopExisting /\ UNCHANGED otherVarsOfMonitor
    \/ Dispatch /\ UNCHANGED otherVarsOfMonitor
    \/ (\E t \in Threads : Acquire(t)) /\ UNCHANGED otherVarsOfMonitor
    \/ (\E t \in Threads : Move(t)) /\ UNCHANGED otherVarsOfMonitor
    \/ (\E t \in Threads : LoadAlign(t)) /\ UNCHANGED otherVarsOfMonitor
    \/ (\E t \in Threads : Library(t)) /\ UNCHANGED otherVarsOfMonitor
    \/ (\E t \in Threads : Save(t)) /\ UNCHANGED otherVarsOfMonitor
    \/ (\E t \in Threads : Except(t)) /\ UNCHANGED otherVarsOfMonitor
    \/ (\E t \in Threads : Release(t)) /\ UNCHANGED otherVarsOfMonitor

(***************************************************************************)
(* Inputs of the pure string functions                                     *)
(***************************************************************************)

\* Longest name, in pieces, handed to detect_language_from_filename.
MaxPieces == 3
\* Longest name, in characters, handed to extract_identifier.
MaxNameLen == 5

Pieces ==
    { <<"a">>, <<"-">>, <<"e", "n">>, <<"E", "N">>, <<"e", "N">>, <<"n">>,
      <<"-", "e">>, <<".">>, <<".", "m", "p", "3">>, <<".", "M", "p", "3">> }

RECURSIVE PieceNames(_)
PieceNames(k) ==
    IF k = 0 THEN { <<>> }
    ELSE LET shorter == PieceNames(k - 1)
         IN  shorter \cup { n \o p : n \in shorter, p \in Pieces }

DetectInputs == PieceNames(MaxPieces)

IdentChars == {"a", "b", "-", "."}

ExtractInputs == UNION { [1..n -> IdentChars] : n \in 0..MaxNameLen }

\* The reorganizer, not started, on an empty ./input.
ReorgIdle ==
    /\ tree = NoEntries
    /\ reorgPc = "start"
    /\ is_org = <<>>
    /\ org_dirs = <<>>
    /\ transcript_dirs = <<>>
    /\ moves = <<>>
    /\ input_kind = "dir"
    /\ response = NoResponse
    /\ move_index = 0

\* No string function under application.
StrIdle ==
    /\ callFn = "none"
    /\ callArg = <<>>
    /\ callPc = "done"
    /\ language_code = "None"
    /\ identifier = <<>>

StrInit ==
    /\ callPc = "call"
    /\ language_code = "None"
    /\ identifier = <<>>
    /\ \/ callFn = "detect" /\ callArg \in DetectInputs
       \/ callFn = "extract" /\ callArg \in ExtractInputs

CallDetect ==
    /\ callPc = "call"
    /\ callFn = "detect"
    /\ language_code' = detect_language_from_filename(callArg)
    /\ callPc' = "done"
    /\ UNCHANGED <<callFn, callArg, identifier>>
    /\ UNCHANGED <<reorgVars, cleanVars, binVars, monVars>>

CallExtract ==
    /\ callPc = "call"
    /\ callFn = "extract"
    /\ identifier' = extract_identifier(callArg)
    /\ callPc' = "done"
    /\ UNCHANGED <<callFn, callArg, language_code>>
    /\ UNCHANGED <<reorgVars, cleanVars, binVars, monVars>>

StrNext == CallDetect \/ CallExtract

InitStr == StrInit /\ ReorgIdle /\ CleanIdle /\ BinIdle /\ MonitorIdle

SpecStr == InitStr /\ [][StrNext]_vars

InitReorg == ReorgInit /\ StrIdle /\ CleanIdle /\ BinIdle /\ MonitorIdle

SpecReorg == InitReorg /\ [][ReorgNext]_vars

InitReorgMain == ReorgMainInit /\ StrIdle /\ CleanIdle /\ BinIdle /\ MonitorIdle

SpecReorgMain == InitReorgMain /\ [][ReorgMainNext]_vars

InitMonitor == MonitorInit /\ StrIdle /\ ReorgIdle /\ CleanIdle /\ BinIdle

SpecMonitor == InitMonitor /\ [][MonitorNext]_vars

InitClean == CleanInit /\ StrIdle /\ ReorgIdle /\ BinIdle /\ MonitorIdle

SpecClean == InitClean /\ [][CleanNext]_vars

InitBin == BinInit /\ StrIdle /\ ReorgIdle /\ CleanIdle /\ MonitorIdle

SpecBin == InitBin /\ [][BinNext]_vars

\* The two threads are scheduled fairly, and every call they make returns.
SpecMonitorFair ==
    /\ InitMonitor
    /\ [][MonitorNext]_vars
    /\ WF_vars(MainStep)
    /\ WF_vars(ObserverStep)

(***************************************************************************)
(* Properties                                                              *)
(***************************************************************************)

\* str.upper(), to build the upper-case variant of an input.
UpperChar(c) ==
    CASE c = "a" -> "A"
      [] c = "e" -> "E"
      [] c = "n" -> "N"
      [] c = "m" -> "M"
      [] c = "p" -> "P"
      [] OTHER -> c

Upper(s) == [i \in 1..Len(s) |-> UpperChar(s[i])]

\* Two characters equal up to letter case (stated without LowerChar).
CaseEq(c, d) ==
    \/ c = d
    \/ {c, d} \in { {"a", "A"}, {"e", "E"}, {"n", "N"}, {"m", "M"}, {"p", "P"},
                    {"k", "K"}, {"y", "Y"}, {"o", "O"}, {"s", "S"} }

\* pat (lower case) occurs in s at some position, letter case ignored.
HasMarker(s, pat) ==
    \E i \in 0..(Len(s) - Len(pat)) :
        \A k \in 1..Len(pat) : CaseEq(s[i + k], pat[k])

\* C4: detect_language_from_filename returns "en" exactly when the filename,
\* letter case ignored, contains "-en.mp3" or "-en-", returns "fi" for every
\* other filename, and returns the same for the upper-cased and the
\* lower-cased filename.
C4_LanguageByMarker ==
    (callPc = "done" /\ callFn = "detect") =>
        /\ language_code \in {"en", "fi"}
        /\ language_code = "en" <=>
              (HasMarker(callArg, DashEnMp3) \/ HasMarker(callArg, DashEnDash))
        /\ detect_language_from_filename(Upper(callArg)) = language_code
        /\ detect_language_from_filename(Lower(callArg)) = language_code

\* An English marker written with upper-case letters was detected as "en".
C4_Witness ==
    /\ callPc = "done"
    /\ callFn = "detect"
    /\ language_code = "en"
    /\ callArg # Lower(callArg)

\* The text after the first '-' of name, up to the next '-' or '.' or the end.
TextAfterFirstDash(name) ==
    LET i == FirstIndex("-", name)
        stops == { j \in (i + 1)..Len(name) : name[j] \in {"-", "."} }
        stop == IF stops = {} THEN Len(name) + 1
                ELSE CHOOSE j \in stops : \A k \in stops : j <= k
    IN  SubSeq(name, i + 1, stop - 1)

\* C7: extract_identifier(name) is the text after the first '-' of name and
\* before the second '-' or the next '.', whichever comes first, and the empty
\* string when name holds no '-'.
C7_IdentifierAfterFirstDash ==
    (callPc = "done" /\ callFn = "extract") =>
        identifier = IF \E i \in 1..Len(callArg) : callArg[i] = "-"
                     THEN TextAfterFirstDash(callArg)
                     ELSE <<>>

\* A non-empty identifier that was cut at a '.' standing before any second '-'.
C7_Witness ==
    /\ callPc = "done"
    /\ callFn = "extract"
    /\ identifier # <<>>
    /\ FirstIndex("-", callArg) > 0
    /\ Contains(<<".">>, Split(callArg, "-")[2])

\* The top-level directories of ./input.
TopDirs == { n \in TopNames : tree[n].kind = "dir" }

\* C8: is_organization_directory answers true only for a directory that holds
\* subdirectories and nothing else: a directory holding any regular file is
\* not an organization directory.
C8_OrgHoldsOnlySubdirectories ==
    \A n \in DOMAIN is_org :
        is_org[n] => /\ tree[n].kind = "dir"
                     /\ \A e \in tree[n].entries : e.is_dir

\* The directory holds a regular file whose suffix is .mp3, letter case ignored.
HoldsMp3File(n) ==
    \E e \in tree[n].entries : ~e.is_dir /\ Lower(Suffix(e.name)) = DotMp3

\* C9: find_transcript_directories returns exactly the directories directly
\* under the input path that hold at least one .mp3 file and whose name yields
\* a non-empty identifier, each paired with that identifier.
C9_TranscriptsHoldMp3File ==
    reorgPc = "planned" =>
        { <<transcript_dirs[i].path, transcript_dirs[i].identifier>> :
              i \in DOMAIN transcript_dirs }
        = { <<n, TextAfterFirstDash(n)>> :
              n \in { m \in TopDirs : /\ HoldsMp3File(m)
                                      /\ FirstIndex("-", m) > 0
                                      /\ TextAfterFirstDash(m) # <<>> } }

\* The organization directories, as is_organization_directory answered.
OrgDirs == { n \in DOMAIN is_org : is_org[n] }

\* id is the name or the extracted identifier of O or of a subdirectory of O.
Matches(id, O) ==
    \/ id = O
    \/ id = extract_identifier(O)
    \/ \E e \in tree[O].entries :
          e.is_dir /\ (id = e.name \/ id = extract_identifier(e.name))

\* C10: a transcript directory T found by find_transcript_directories is the
\* source of a move exactly when some organization directory O matches its
\* identifier; every move is (T, O/T.name) for such a T and a matching O; no
\* transcript directory is the source of two moves.
C10_MovesExactlyTheMatched ==
    reorgPc = "planned" =>
        /\ \A i \in DOMAIN transcript_dirs :
              (\E O \in OrgDirs : Matches(transcript_dirs[i].identifier, O))
              <=> (\E j \in DOMAIN moves :
                      moves[j].source = <<transcript_dirs[i].path>>)
        /\ \A j \in DOMAIN moves :
              \E i \in DOMAIN transcript_dirs : \E O \in OrgDirs :
                  /\ moves[j].source = <<transcript_dirs[i].path>>
                  /\ Matches(transcript_dirs[i].identifier, O)
                  /\ moves[j].target = <<O, transcript_dirs[i].path>>
        /\ \A j, k \in DOMAIN moves :
              moves[j].source = moves[k].source => j = k

\* A planned move of a transcript directory that two organization directories
\* match, one of them through a subdirectory only.
C10_Witness ==
    /\ reorgPc = "planned"
    /\ Len(moves) = 1
    /\ HoldsMp3File(moves[1].source[1])
    /\ \E O1, O2 \in OrgDirs :
          /\ O1 # O2
          /\ Matches(extract_identifier(moves[1].source[1]), O1)
          /\ Matches(extract_identifier(moves[1].source[1]), O2)
          /\ O2 # extract_identifier(moves[1].source[1])
          /\ extract_identifier(O2) # extract_identifier(moves[1].source[1])

\* The set of the elements of a sequence.
Range(seq) == { seq[i] : i \in DOMAIN seq }

IsPrefix(a, b) == Len(a) <= Len(b) /\ SubSeq(b, 1, Len(a)) = a

\* The order the steps of one file are claimed to run in.
ClaimedOrder ==
    <<"move", "load_align", "transcribe", "align", "diarize", "assign", "save">>

IsClaimedStep(step) == step \in Range(ClaimedOrder)

\* The claimed steps that have finished in thread t's current call.
Finished(t) == SelectSeq(steps_done[t], IsClaimedStep)

\* C1: in every call of process_mp3_file the steps that have finished are a
\* prefix of move, load alignment model, transcribe, align, diarize, assign
\* speakers, write outputs; a step is started only when exactly the steps
\* before it have finished; and after a step raised no step is started.
C1_StepsInFixedOrder ==
    \A t \in Threads :
        /\ IsPrefix(Finished(t), ClaimedOrder)
        /\ \A i \in DOMAIN ClaimedOrder :
              pc[t] = ClaimedOrder[i] => Finished(t) = SubSeq(ClaimedOrder, 1, i - 1)
        /\ raised[t] => pc[t] = "release"

\* A call that has finished all seven steps and is about to return.
C1_Witness ==
    \E t \in Threads : pc[t] = "release" /\ Finished(t) = ClaimedOrder

\* name ends in ".mp3", letter case ignored.
IsMp3Name(name) ==
    /\ Len(name) >= Len(DotMp3)
    /\ \A k \in 1..Len(DotMp3) :
          CaseEq(name[Len(name) - Len(DotMp3) + k], DotMp3[k])

\* X for a file name X.mp3.
BaseName(name) == SubSeq(name, 1, Len(name) - Len(DotMp3))

\* ./input/X/X.txt, ./input/X/X.md and ./input/X/X.json for the file X.mp3.
ExpectedOutputs(name) ==
    { <<BaseName(name), BaseName(name) \o ext>> : ext \in {DotTxt, DotMd, DotJson} }

\* No call has written an output file before its speaker assignment finished.
OutputsOnlyAfterAssign ==
    \A t \in Threads : wrote[t] # {} => "assign" \in Range(steps_done[t])

\* C2 as claimed: whenever process_mp3_file is about to return for X.mp3
\* without any step having raised, ./input/X/ holds X.txt, X.md and X.json,
\* and no output file is written before speaker assignment has finished.
C2_OutputsWheneverNoRaise ==
    /\ OutputsOnlyAfterAssign
    /\ \A t \in Threads :
          (pc[t] = "release" /\ ~raised[t]) =>
              ExpectedOutputs(file_path[t]) \subseteq fs_files

\* C2 as amended: the same for a file that existed when processing began.
C2_OutputsWhenFileExisted ==
    /\ OutputsOnlyAfterAssign
    /\ \A t \in Threads :
          (pc[t] = "release" /\ ~raised[t] /\ existed[t]) =>
              ExpectedOutputs(file_path[t]) \subseteq fs_files

\* A call about to return, without a raise, having written the three files.
C2_Witness ==
    \E t \in Threads :
        /\ pc[t] = "release"
        /\ ~raised[t]
        /\ existed[t]
        /\ wrote[t] = ExpectedOutputs(file_path[t])

\* The MP3 files of a set of paths.
Mp3Paths(paths) == { p \in paths : IsMp3Name(p[Len(p)]) }

\* The monitor deletes no MP3, and moves one only from ./input/X.mp3 to
\* ./input/X/X.mp3.
NeverDeletedNorMovedElsewhere ==
    [][ \A p \in Mp3Paths(fs_files) :
            \/ p \in fs_files'
            \/ /\ Len(p) = 1
               /\ <<BaseName(p[1]), p[1]>> \in fs_files' ]_vars

C6_ScanTakesWhatWatcherTakes ==
    pc["main"] \notin {"start", "scan"} =>
        \A n \in listing : IsMp3Name(n) => n \in Range(mp3_files)

\* The file has its three transcripts.
Transcribed(name) == ExpectedOutputs(name) \subseteq fs_files

\* The file's target directory has an error.log.
Failed(name) == <<BaseName(name), ErrorLog>> \in fs_files

Blank(c) == c \in {" ", "\t"}

\* typed is the word, letter case and surrounding white space ignored.
IsAnswer(typed, word) ==
    \E i \in 0..(Len(typed) - Len(word)) :
        /\ \A k \in 1..Len(word) : CaseEq(typed[i + k], word[k])
        /\ \A j \in 1..i : Blank(typed[j])
        /\ \A j \in (i + Len(word) + 1)..Len(typed) : Blank(typed[j])

\* The user answered k, kyllä, y or yes.
SaidYes(typed) ==
    \E word \in { <<"k">>, <<"k", "y", "l", "l", "ä">>, <<"y">>, <<"y", "e", "s">> } :
        IsAnswer(typed, word)

\* The user answered e, ei, n or no.
SaidNo(typed) ==
    \E word \in { <<"e">>, <<"e", "i">>, <<"n">>, <<"n", "o">> } :
        IsAnswer(typed, word)

\* C11: the reorganize program changes ./input only while executing moves,
\* which it does only after the user answered k, kyllä, y or yes to the prompt
\* of a non-empty plan for an existing ./input; on e, ei, n or no it returns
\* with ./input untouched, and on any other answer it asks again with ./input
\* untouched.
C11_MovesOnlyAfterYes ==
    /\ [](reorgPc = "execute" =>
              /\ SaidYes(response)
              /\ moves # <<>>
              /\ input_kind # "absent")
    /\ [](reorgPc = "prompt" => moves # <<>> /\ input_kind # "absent")
    /\ [][ tree' # tree => (reorgPc = "execute" /\ SaidYes(response)) ]_vars
    /\ [][ (reorgPc = "prompt" /\ reorgPc' # "crashed") =>
              /\ SaidYes(response') => reorgPc' = "execute"
              /\ SaidNo(response') => (reorgPc' = "returned" /\ tree' = tree)
              /\ (~SaidYes(response') /\ ~SaidNo(response')) =>
                    (reorgPc' = "prompt" /\ tree' = tree /\ moves' = moves) ]_vars

\* The user declined a non-empty plan with an upper-case answer, and the
\* program returned.
C11_Witness ==
    /\ reorgPc = "returned"
    /\ moves # <<>>
    /\ SaidNo(response)
    /\ response # Lower(response)
    /\ HoldsMp3File(moves[1].source[1])
    /\ tree[moves[1].source[1]].kind = "dir"
    /\ move_index = 0

\* The directories beneath ./input.
DirsBeneath == { n.path : n \in { m \in clean_fs : m.is_dir } }

\* What the directory d holds.
EntriesOf(d) ==
    { n \in clean_fs : Len(n.path) = Len(d) + 1 /\ IsWithin(n.path, d) }

\* d holds nothing, or nothing but a file named .DS_Store.
CountsAsEmpty(d) ==
    EntriesOf(d) \subseteq { [path |-> Append(d, DsStore), is_dir |-> FALSE] }

\* The list is in increasing order, without repetition.
InOrder(paths) ==
    \A i, j \in DOMAIN paths : i < j => PathLess(paths[i], paths[j])

\* C12: find_empty_directories(root) returns, in sorted order, exactly the
\* directories beneath root, root itself not among them, that hold nothing or
\* only a file named .DS_Store, and the empty list when root is missing or is
\* not a directory.
C12_EmptyDirectoriesBeneathRoot ==
    cleanPc = "found" =>
        /\ InOrder(empty_dirs)
        /\ Range(empty_dirs) =
              IF clean_kind = "dir"
              THEN { d \in DirsBeneath : CountsAsEmpty(d) }
              ELSE {}

\* ./input and the directories beneath it, in the given state of the tree.
AllDirs(kind, fs) ==
    IF kind = "dir"
    THEN {<<>>} \cup { n.path : n \in { m \in fs : m.is_dir } }
    ELSE {}

\* C13: the cleanup program changes ./input only while deleting, which it
\* does only after it listed a non-empty set of directories and the user
\* answered k, kyllä, y or yes; every directory a step removes was listed; on
\* e, ei, n or no it returns with the tree untouched, on any other answer it
\* asks again with the tree untouched, and with no empty directory found it
\* returns without asking.
C13_DeletesOnlyListedAfterYes ==
    /\ [](cleanPc = "delete" =>
              /\ SaidYes(clean_response)
              /\ empty_dirs # <<>>
              /\ listed = Range(empty_dirs))
    /\ [](cleanPc = "prompt" => empty_dirs # <<>> /\ listed = Range(empty_dirs))
    /\ [][ (clean_fs' # clean_fs \/ clean_kind' # clean_kind) =>
              /\ cleanPc = "delete"
              /\ SaidYes(clean_response)
              /\ (AllDirs(clean_kind, clean_fs) \ AllDirs(clean_kind', clean_fs'))
                    \subseteq listed ]_vars
    /\ [][ (cleanPc = "prompt" /\ cleanPc' # "crashed") =>
              /\ SaidYes(clean_response') => cleanPc' = "delete"
              /\ SaidNo(clean_response') =>
                    (cleanPc' = "returned" /\ clean_fs' = clean_fs)
              /\ (~SaidYes(clean_response') /\ ~SaidNo(clean_response')) =>
                    (cleanPc' = "prompt" /\ clean_fs' = clean_fs) ]_vars

\* Two listed directories were deleted after a yes, and a directory that was
\* not listed is still there.
C13_Witness ==
    /\ cleanPc = "returned"
    /\ SaidYes(clean_response)
    /\ Cardinality(listed) = 2
    /\ listed \cap AllDirs(clean_kind, clean_fs) = {}
    /\ AllDirs(clean_kind, clean_fs) \ {<<>>} # {}

\* C14: when the frames are no further apart than max_duration, no region
\* stored by Binarize.__call__ (padding zero) is longer than max_duration.
C14_NoRegionLongerThanMax ==
    frame_step <= max_duration =>
        \A region \in active : region.end - region.start <= max_duration

\* A finished binarization that divided a long active stretch: two stored
\* regions meet, and the first is as long as max_duration allows.
C14_Witness ==
    /\ binPc = "done"
    /\ frame_step <= max_duration
    /\ \E r1, r2 \in active :
          /\ r1.end = r2.start
          /\ r1.end - r1.start = max_duration
          /\ r2.end - r2.start < max_duration

\* Thread t is inside the `with self.processing_lock:` block.
InBody(t) ==
    pc[t] \in { "move", "load_align", "load_audio", "transcribe", "align",
                "diarize", "assign", "save", "except", "release" }

\* C15: at no time are both the main thread and the observer thread inside
\* the body of process_mp3_file, and a thread inside it holds processing_lock.
C15_OneFileInBody ==
    /\ Cardinality({ t \in Threads : InBody(t) }) <= 1
    /\ \A t \in Threads : InBody(t) => lock = t

\* The observer thread waits for the lock with a new file while the main
\* thread is transcribing a file of the startup scan.
C15_Witness ==
    /\ pc["main"] = "transcribe"
    /\ pc["observer"] = "acquire"
    /\ file_path["observer"] # file_path["main"]
    /\ IsMp3Name(file_path["observer"])
    /\ lock = "main"

====
